---- MODULE Spec2Model ----
(***************************************************************************)
(* Counseling-session pipeline: recording upload, transcription tasks,    *)
(* analysis tasks, session status, the role-filtered session list, the    *)
(* polling task page, the auth provider and the route guard.              *)
(*                                                                         *)
(* The backend request handlers (app/api/*.py) are not part of the        *)
(* sources; the operations that stand for them follow the specification.  *)
(* The background worker, the Whisper response parser, the analysis       *)
(* scoring, the access filter and the frontend callers are translated     *)
(* from the sources.                                                      *)
(***************************************************************************)
EXTENDS Integers, Sequences, FiniteSets, TLC

\* ---------------------------------------------------------------- bounds
MaxPolls == 2
\* calls of handleStartRecording, the clock's range, maxDuration (in ticks)
MaxStarts == 2
MaxNow == 3
MaxDuration == 2
MaxTasks == 2
MaxAnalyses == 2
MaxSegs == 2
MaxRecordings == 2
MaxSessions == 2

\* ------------------------------------------------------ program constants
MaxRetries_four == 3 + 1

\* "Retry Logic: Up to 3 retries"
MaxRetries == 3

TaskIds == 1..MaxTasks
AnalysisIds == 1..MaxAnalyses
RecIds == 1..MaxRecordings
SessIds == 1..MaxSessions

\* the session (and its recording) the task pipeline works on
FirstOf(S) == CHOOSE x \in S : \A y \in S : x <= y
TheSession == FirstOf(SessIds)
TheRecording == FirstOf(RecIds)

\* status enum of a task row
TaskStatus == {"pending", "processing", "completed", "failed", "retrying"}
\* sessions.status is one of recorded, transcribed, analyzed, completed and
\* recordings.upload_status one of pending, uploading, completed, failed;
\* "none" stands for a row that does not exist yet

VARIABLES
    \* transcription_tasks rows
    t_status, t_retry, t_text, t_conf, t_error,
    \* analysis rows
    a_status, a_retry, a_scores, a_overall, a_error,
    \* sessions rows
    sess_status, s_counselor, s_clinic,
    \* result of the last session list query
    list_caller, list_result,
    \* recordings rows, the object store, the upload page (handleUpload)
    upload_status, is_deleted, s3_object, hu_pc, hu_rid,
    \* TranscriptionPage: the task list it shows, its error banner, the list
    \* requests that are under way, in the order they were issued;
    \* SessionDetailPage: its error banner
    tp_tasks, tp_error, tp_inflight, sd_error,
    \* AuthProvider: user (by role), loading; localStorage; where initAuth and
    \* login stand
    auth_user, auth_loading, ls_token, ls_user, init_pc, login_pc,
    \* the router's location, the props of the mounted ProtectedRoute, what it
    \* rendered last, whether its effect is still to run
    pathname, requiredRole, fallbackUrl, rendered, effect_due,
    \* the browser: a document load that window.location.href has started
    reload_due,
    \* useMediaRecorder: state and the refs; the clock (Date.now())
    state, mediaRecorderRef, streamRef, timerRef, startTimeRef, now,
    \* the browser: each MediaRecorder's state, the stop events it still has
    \* to fire, the streams whose tracks are live
    mr_state, onstop_due, live_streams,
    \* AudioRecorder: stream, whether it is mounted, where each call of
    \* handleStartRecording stands, which of its effects are still to run
    stream, mounted, start_pc, blob_effect_due, max_effect_due,
    \* RecordingPage: its state, the blob handleUpload is sending
    recordedBlob, isUploading, uploadSuccess, page_error, hu_blob,
    \* history: the time spent recording and not paused since the last start,
    \* the blob of the last successful upload
    active_time, uploaded,
    \* the last request or worker step that was served
    last_op

varsT == <<t_status, t_retry, t_text, t_conf, t_error>>
varsA == <<a_status, a_retry, a_scores, a_overall, a_error>>
varsS == <<s_counselor, s_clinic>>
varsL == <<list_caller, list_result>>
varsR == <<upload_status, is_deleted, s3_object, hu_pc, hu_rid>>
varsU == <<tp_tasks, tp_error, tp_inflight, sd_error>>
varsP == <<auth_user, auth_loading, ls_token, ls_user, init_pc, login_pc,
           pathname, requiredRole, fallbackUrl, rendered, effect_due>>
varsN == <<reload_due>>
varsM == <<state, mediaRecorderRef, streamRef, timerRef, startTimeRef, now,
           mr_state, onstop_due, live_streams, active_time>>
varsC == <<stream, mounted, start_pc, blob_effect_due, max_effect_due>>
varsG == <<recordedBlob, isUploading, uploadSuccess, page_error, hu_blob, uploaded>>
varsX == <<varsN, varsM, varsC, varsG>>
varsF == <<varsU, varsP, varsX>>
vars == <<varsT, varsA, sess_status, varsS, varsL, varsR, varsF, last_op>>

Op(name, id, ok) == [op |-> name, id |-> id, ok |-> ok]
NoOp == Op("none", 0, TRUE)

\* ------------------------------------------------------------- rationals
RECURSIVE Gcd(_, _)
Gcd(a, b) == IF b = 0 THEN a ELSE Gcd(b, a % b)

Rat(n, d) == [num |-> n \div Gcd(n, d), den |-> d \div Gcd(n, d)]
RatAdd(x, y) == Rat(x.num * y.den + y.num * x.den, x.den * y.den)
RatDivInt(x, n) == Rat(x.num, x.den * n)
Zero == Rat(0, 1)
Half == Rat(1, 2)
One == Rat(1, 1)
\* a column that holds NULL
NullRat == [num |-> 0, den |-> 0]

RECURSIVE SeqsUpTo(_, _)
SeqsUpTo(S, n) ==
    IF n = 0 THEN {<<>>}
    ELSE LET shorter == SeqsUpTo(S, n - 1)
         IN shorter \cup {Append(q, x) : q \in {p \in shorter : Len(p) = n - 1}, x \in S}

\* ============================================================ transcription
\* What the speech API may answer (response_format "verbose_json"): a text,
\* possibly empty for silent audio, and segments that may or may not carry a
\* 'confidence' key.
WhisperTexts == {"", "konnichiwa"}
RespSegments ==
    {[present |-> FALSE, value |-> Zero]}
        \cup {[present |-> TRUE, value |-> v] : v \in {Zero, Half, One}}
WhisperResponses ==
    {[text |-> x, segments |-> sg] : x \in WhisperTexts, sg \in SeqsUpTo(RespSegments, MaxSegs)}
\* the answer for a clear recording
NominalResponses ==
    {[text |-> "konnichiwa", segments |-> <<[present |-> TRUE, value |-> One]>>]}

\* segment.get('confidence', 0.0)
SegmentConfidence(segment) == IF segment.present THEN segment.value ELSE Zero

RECURSIVE SumConfidence(_)
SumConfidence(segments) ==
    IF segments = <<>> THEN Zero
    ELSE RatAdd(Head(segments), SumConfidence(Tail(segments)))

calculate_overall_confidence_nodiv(segments) ==
    IF segments = <<>> THEN Zero ELSE SumConfidence(segments)

\* sum(segment.confidence) / len(segments), 0.0 without segments
calculate_overall_confidence(segments) ==
    IF segments = <<>> THEN Zero
    ELSE RatDivInt(SumConfidence(segments), Len(segments))

parse_whisper_response(response) ==
    LET segments == [i \in 1..Len(response.segments) |->
                        SegmentConfidence(response.segments[i])]
    IN [text |-> response.text,
        confidence |-> calculate_overall_confidence(segments)]

\* the session detail the frontend renders: session.transcription is present
\* once a transcription of the session is completed
SessionHasTranscription == \E t \in TaskIds : t_status[t] = "completed"
SessionHasAnalysis == \E a \in AnalysisIds : a_status[a] = "completed"
\* session.recording is the joined recording row, whatever its upload status
SessionHasRecording ==
    upload_status[TheRecording] # "none" /\ ~is_deleted[TheRecording]

\* the transcription endpoint before it creates the task: "Verify recording
\* exists", "Validate audio file format and accessibility"
RecordingFileAccessible ==
    upload_status[TheRecording] # "none" /\ s3_object[TheRecording]

\* POST /api/v1/transcription/ : a task row is created in "pending"
create_transcription_task(t) ==
    /\ t_status[t] = "none"
    /\ \A u \in TaskIds : u < t => t_status[u] # "none"
    /\ t_status' = [t_status EXCEPT ![t] = "pending"]
    /\ UNCHANGED <<t_retry, t_text, t_conf, t_error>>

\* SessionDetailPage.startTranscription
startTranscription(t) ==
    /\ SessionHasRecording
    /\ ~SessionHasTranscription
    /\ RecordingFileAccessible
    /\ create_transcription_task(t)
    /\ last_op' = Op("transcribe", t, TRUE)
    /\ UNCHANGED <<varsA, sess_status, varsS, varsL, varsR, varsF>>

\* SessionDetailPage.startTranscription, response not ok: setError
startTranscription_failed ==
    /\ SessionHasRecording
    /\ ~SessionHasTranscription
    /\ sd_error' = TRUE
    /\ last_op' = Op("transcribe", 0, FALSE)
    /\ UNCHANGED <<tp_tasks, tp_error, tp_inflight>>
    /\ UNCHANGED <<varsT, varsA, sess_status, varsS, varsL, varsR>>
    /\ UNCHANGED <<varsP, varsX>>

\* transcribe_audio_task: update_state(state='PROCESSING')
transcribe_audio_task_begin(t) ==
    /\ t_status[t] = "pending"
    /\ t_status' = [t_status EXCEPT ![t] = "processing"]
    /\ last_op' = Op("worker_begin", t, TRUE)
    /\ UNCHANGED <<t_retry, t_text, t_conf, t_error>>
    /\ UNCHANGED <<varsA, sess_status, varsS, varsL, varsR, varsF>>

\* save_transcription_result: the result is stored and the session flipped
save_transcription_result(t, result) ==
    /\ t_text' = [t_text EXCEPT ![t] = result.text]
    /\ t_conf' = [t_conf EXCEPT ![t] = result.confidence]
    /\ sess_status' = [sess_status EXCEPT ![TheSession] = "transcribed"]

\* transcribe_audio_task, no exception: result parsed, saved, state SUCCESS
transcribe_audio_task_success(t, response) ==
    /\ t_status[t] = "processing"
    /\ save_transcription_result(t, parse_whisper_response(response))
    /\ t_status' = [t_status EXCEPT ![t] = "completed"]
    /\ last_op' = Op("worker_success", t, TRUE)
    /\ UNCHANGED <<t_retry, t_error>>
    /\ UNCHANGED <<varsA, varsS, varsL, varsR, varsF>>

transcribe_audio_task_failure_requeue(t) ==
    /\ t_status[t] = "processing"
    /\ t_status' = [t_status EXCEPT ![t] = "pending"]
    /\ t_error' = [t_error EXCEPT ![t] = TRUE]
    /\ last_op' = Op("worker_failure", t, TRUE)
    /\ UNCHANGED <<t_retry, t_text, t_conf>>
    /\ UNCHANGED <<varsA, sess_status, varsS, varsL, varsR, varsF>>

transcribe_audio_task_failure_autoretry(t) ==
    /\ t_status[t] = "processing"
    /\ IF t_retry[t] < MaxRetries
       THEN /\ t_status' = [t_status EXCEPT ![t] = "pending"]
            /\ t_retry' = [t_retry EXCEPT ![t] = t_retry[t] + 1]
       ELSE /\ t_status' = [t_status EXCEPT ![t] = "failed"]
            /\ UNCHANGED t_retry
    /\ t_error' = [t_error EXCEPT ![t] = TRUE]
    /\ last_op' = Op("worker_failure", t, TRUE)
    /\ UNCHANGED <<t_text, t_conf>>
    /\ UNCHANGED <<varsA, sess_status, varsS, varsL, varsR, varsF>>

transcribe_audio_task_failure_swallowed(t) ==
    /\ t_status[t] = "processing"
    /\ last_op' = Op("worker_failure", t, TRUE)
    /\ UNCHANGED <<t_status, t_retry, t_text, t_conf, t_error>>
    /\ UNCHANGED <<varsA, sess_status, varsS, varsL, varsR, varsF>>

\* transcribe_audio_task, except branch: state FAILURE with the error
transcribe_audio_task_failure(t) ==
    /\ t_status[t] = "processing"
    /\ t_status' = [t_status EXCEPT ![t] = "failed"]
    /\ t_error' = [t_error EXCEPT ![t] = TRUE]
    /\ last_op' = Op("worker_failure", t, TRUE)
    /\ UNCHANGED <<t_retry, t_text, t_conf>>
    /\ UNCHANGED <<varsA, sess_status, varsS, varsL, varsR, varsF>>

\* the retry endpoint accepts a failed task that has retries left
RetryAllowed(status, retry_count) ==
    status = "failed" /\ retry_count < MaxRetries

RetriedRow_noincrement(retry_count) ==
    [status |-> "pending", retry_count |-> retry_count]

\* what an accepted retry writes to the task row
RetriedRow(retry_count) ==
    [status |-> "pending", retry_count |-> retry_count + 1]

\* POST /api/v1/transcription/retry/{task_id}
retry_endpoint(t) ==
    IF RetryAllowed(t_status[t], t_retry[t])
    THEN /\ t_status' = [t_status EXCEPT ![t] = RetriedRow(t_retry[t]).status]
         /\ t_retry' = [t_retry EXCEPT ![t] = RetriedRow(t_retry[t]).retry_count]
         /\ last_op' = Op("retry", t, TRUE)
         /\ UNCHANGED <<t_text, t_conf, t_error>>
    ELSE /\ last_op' = Op("retry", t, FALSE)
         /\ UNCHANGED varsT

\* TranscriptionPage.retryTranscription: the button of a failed task
retryTranscription(t) ==
    /\ t_status[t] = "failed"
    /\ retry_endpoint(t)
    /\ UNCHANGED <<varsA, sess_status, varsS, varsL, varsR, varsF>>

\* ================================================================= analysis
\* What the LLM may answer for the four categories ("score 1-10")
ScoreValues == {1, 10}
LlmResponses ==
    [questioning : ScoreValues, anxiety : ScoreValues,
     closing : ScoreValues, flow : ScoreValues]
NominalLlmResponses ==
    {[questioning |-> 10, anxiety |-> 10, closing |-> 1, flow |-> 10]}
AnalysisTypes == {"full", "quick", "specific"}
NoScores == [questioning |-> 0, anxiety |-> 0, closing |-> 0, flow |-> 0]

full_analysis_swapped(r) ==
    [overall_score |-> r.questioning * 25 + r.anxiety * 25
                        + r.closing * 20 + r.flow * 30,
     scores |-> r]

full_analysis_unweighted(r) ==
    [overall_score |-> (r.questioning + r.anxiety + r.closing + r.flow) * 100,
     scores |-> r]

\* AnalysisService._full_analysis; overall_score in hundredths
full_analysis(r) ==
    [overall_score |-> r.questioning * 25 + r.anxiety * 25
                        + r.closing * 30 + r.flow * 20,
     scores |-> r]

\* _quick_analysis and _specific_analysis: the declared weighted combination
quick_or_specific_analysis(r) ==
    [overall_score |-> r.questioning * 25 + r.anxiety * 25
                        + r.closing * 30 + r.flow * 20,
     scores |-> r]

\* AnalysisService.analyze_counseling
analyze_counseling(analysis_type, r) ==
    IF analysis_type = "full" THEN full_analysis(r)
    ELSE quick_or_specific_analysis(r)

\* POST /api/v1/ai-analysis/ : an analysis row is created in "pending"
create_analysis_task(a) ==
    /\ a_status[a] = "none"
    /\ \A b \in AnalysisIds : b < a => a_status[b] # "none"
    /\ a_status' = [a_status EXCEPT ![a] = "pending"]
    /\ UNCHANGED <<a_retry, a_scores, a_overall, a_error>>

startAnalysis_unguarded(a) ==
    /\ ~SessionHasAnalysis
    /\ create_analysis_task(a)
    /\ last_op' = Op("analyze", a, TRUE)
    /\ UNCHANGED <<varsT, sess_status, varsS, varsL, varsR, varsF>>

startAnalysis_singleflight(a) ==
    /\ SessionHasTranscription
    /\ \A b \in AnalysisIds : a_status[b] = "none"
    /\ create_analysis_task(a)
    /\ last_op' = Op("analyze", a, TRUE)
    /\ UNCHANGED <<varsT, sess_status, varsS, varsL, varsR, varsF>>

\* SessionDetailPage.startAnalysis
startAnalysis(a) ==
    /\ SessionHasTranscription
    /\ ~SessionHasAnalysis
    /\ create_analysis_task(a)
    /\ last_op' = Op("analyze", a, TRUE)
    /\ UNCHANGED <<varsT, sess_status, varsS, varsL, varsR, varsF>>

\* SessionDetailPage.startAnalysis, response not ok: setError
startAnalysis_failed ==
    /\ SessionHasTranscription
    /\ ~SessionHasAnalysis
    /\ sd_error' = TRUE
    /\ last_op' = Op("analyze", 0, FALSE)
    /\ UNCHANGED <<tp_tasks, tp_error, tp_inflight>>
    /\ UNCHANGED <<varsT, varsA, sess_status, varsS, varsL, varsR>>
    /\ UNCHANGED <<varsP, varsX>>

\* the background analysis task starts
analysis_task_begin(a) ==
    /\ a_status[a] = "pending"
    /\ a_status' = [a_status EXCEPT ![a] = "processing"]
    /\ last_op' = Op("analysis_begin", a, TRUE)
    /\ UNCHANGED <<a_retry, a_scores, a_overall, a_error>>
    /\ UNCHANGED <<varsT, sess_status, varsS, varsL, varsR, varsF>>

\* the background analysis task ends: result stored, session flipped
analysis_task_success(a, analysis_type, r) ==
    /\ a_status[a] = "processing"
    /\ LET result == analyze_counseling(analysis_type, r)
       IN /\ a_scores' = [a_scores EXCEPT ![a] = result.scores]
          /\ a_overall' = [a_overall EXCEPT ![a] = result.overall_score]
    /\ a_status' = [a_status EXCEPT ![a] = "completed"]
    /\ sess_status' = [sess_status EXCEPT ![TheSession] = "analyzed"]
    /\ last_op' = Op("analysis_success", a, TRUE)
    /\ UNCHANGED <<a_retry, a_error>>
    /\ UNCHANGED <<varsT, varsS, varsL, varsR, varsF>>

\* the background analysis task raises: status failed with the error
analysis_task_failure(a) ==
    /\ a_status[a] = "processing"
    /\ a_status' = [a_status EXCEPT ![a] = "failed"]
    /\ a_error' = [a_error EXCEPT ![a] = TRUE]
    /\ last_op' = Op("analysis_failure", a, TRUE)
    /\ UNCHANGED <<a_retry, a_scores, a_overall>>
    /\ UNCHANGED <<varsT, sess_status, varsS, varsL, varsR, varsF>>

\* manual retry of a failed analysis
retry_analysis(a) ==
    /\ a_status[a] = "failed"
    /\ IF RetryAllowed(a_status[a], a_retry[a])
       THEN /\ a_status' = [a_status EXCEPT ![a] = RetriedRow(a_retry[a]).status]
            /\ a_retry' = [a_retry EXCEPT ![a] = RetriedRow(a_retry[a]).retry_count]
            /\ last_op' = Op("analysis_retry", a, TRUE)
            /\ UNCHANGED <<a_scores, a_overall, a_error>>
       ELSE /\ last_op' = Op("analysis_retry", a, FALSE)
            /\ UNCHANGED varsA
    /\ UNCHANGED <<varsT, sess_status, varsS, varsL, varsR, varsF>>

\* useMediaRecorder's useState initial value, the refs, the page's state
CallIds == 1..MaxStarts
NoState ==
    [isRecording |-> FALSE, isPaused |-> FALSE, duration |-> 0, blob |-> 0,
     error |-> FALSE]

InitRecorder ==
    /\ state = NoState
    /\ mediaRecorderRef = 0
    /\ streamRef = 0
    /\ timerRef = FALSE
    /\ startTimeRef = 0
    /\ now = 0
    /\ mr_state = [c \in CallIds |-> "none"]
    /\ onstop_due = {}
    /\ live_streams = {}
    /\ active_time = 0
    /\ stream = 0
    /\ mounted = TRUE
    /\ start_pc = [c \in CallIds |-> "idle"]
    /\ blob_effect_due = FALSE
    /\ max_effect_due = FALSE
    /\ recordedBlob = 0
    /\ isUploading = FALSE
    /\ uploadSuccess = FALSE
    /\ page_error = FALSE
    /\ hu_blob = 0
    /\ uploaded = 0

\* ===================================================== task life cycle (Spec)
\* The session exists with its recording uploaded and marked complete.
InitRows ==
    /\ t_status = [t \in TaskIds |-> "none"]
    /\ t_retry = [t \in TaskIds |-> 0]
    /\ t_text = [t \in TaskIds |-> ""]
    /\ t_conf = [t \in TaskIds |-> NullRat]
    /\ t_error = [t \in TaskIds |-> FALSE]
    /\ a_status = [a \in AnalysisIds |-> "none"]
    /\ a_retry = [a \in AnalysisIds |-> 0]
    /\ a_scores = [a \in AnalysisIds |-> NoScores]
    /\ a_overall = [a \in AnalysisIds |-> 0]
    /\ a_error = [a \in AnalysisIds |-> FALSE]
    /\ s_counselor = [s \in SessIds |-> "none"]
    /\ s_clinic = [s \in SessIds |-> "none"]
    /\ list_caller = "none"
    /\ list_result = {}
    /\ is_deleted = [r \in RecIds |-> FALSE]
    /\ hu_pc = "idle"
    /\ hu_rid = 0
    /\ tp_tasks = [t \in TaskIds |-> [status |-> "none", error |-> FALSE]]
    /\ tp_error = FALSE
    /\ tp_inflight = <<>>
    /\ sd_error = FALSE
    /\ reload_due = FALSE
    /\ InitRecorder
    /\ last_op = NoOp

\* the signed-in counselor of the pipeline specifications, on a protected page
InitSignedIn ==
    /\ auth_user = "counselor"
    /\ auth_loading = FALSE
    /\ ls_token = "valid"
    /\ ls_user = "counselor"
    /\ init_pc = "done"
    /\ login_pc = "idle"
    /\ pathname = "/protected"
    /\ requiredRole = "none"
    /\ fallbackUrl = "/login"
    /\ rendered = "children"
    /\ effect_due = FALSE

Init ==
    /\ InitRows
    /\ InitSignedIn
    /\ sess_status = [s \in SessIds |-> IF s = TheSession THEN "recorded" ELSE "none"]
    /\ upload_status = [r \in RecIds |-> IF r = TheRecording THEN "completed" ELSE "none"]
    /\ s3_object = [r \in RecIds |-> r = TheRecording]

\* one transcription task and one analysis task, every answer of the two APIs
Next ==
    \/ startTranscription(FirstOf(TaskIds))
    \/ transcribe_audio_task_begin(FirstOf(TaskIds))
    \/ \E response \in WhisperResponses :
           transcribe_audio_task_success(FirstOf(TaskIds), response)
    \/ transcribe_audio_task_failure(FirstOf(TaskIds))
    \/ retryTranscription(FirstOf(TaskIds))
    \/ startAnalysis(FirstOf(AnalysisIds))
    \/ analysis_task_begin(FirstOf(AnalysisIds))
    \/ \E analysis_type \in AnalysisTypes, r \in LlmResponses :
           analysis_task_success(FirstOf(AnalysisIds), analysis_type, r)
    \/ analysis_task_failure(FirstOf(AnalysisIds))
    \/ retry_analysis(FirstOf(AnalysisIds))

Spec == Init /\ [][Next]_vars

\* ------------------------------------------------------------------ claims
TaskMoves ==
    {<<"none", "pending">>, <<"pending", "processing">>,
     <<"processing", "completed">>, <<"processing", "failed">>,
     <<"failed", "pending">>}

C3_ExhaustedStaysFailed ==
    [][/\ \A t \in TaskIds :
            t_status[t] = "failed" /\ t_retry[t] >= 3
            => t_status'[t] = "failed" /\ t_retry'[t] = t_retry[t]
       /\ \A a \in AnalysisIds :
            a_status[a] = "failed" /\ a_retry[a] >= 3
            => a_status'[a] = "failed" /\ a_retry'[a] = a_retry[a]
      ]_vars

\* a retry request was made for an exhausted task and was refused
C3_Witness ==
    \E t \in TaskIds :
        /\ last_op = Op("retry", t, FALSE)
        /\ t_status[t] = "failed" /\ t_retry[t] = 3

C7_CompletedHasText ==
    \A t \in TaskIds : t_status[t] = "completed" => t_text[t] # ""

\* C8: every completed transcription task has a confidence in [0,1].
C8_ConfidenceInUnitInterval ==
    \A t \in TaskIds :
        t_status[t] = "completed" =>
            /\ t_conf[t].den > 0
            /\ 0 <= t_conf[t].num
            /\ t_conf[t].num <= t_conf[t].den

\* a completed task whose confidence is the mean of two different segments
C8_Witness ==
    \E t \in TaskIds : t_status[t] = "completed" /\ t_conf[t] = Rat(3, 4)

\* C9: the stored overall_score of an analysis equals
\* questioning*0.25 + anxiety*0.25 + closing*0.30 + flow*0.20 of its stored
\* sub-scores (scores in units, overall_score in hundredths).
C9_OverallIsWeightedSum ==
    \A a \in AnalysisIds :
        a_status[a] = "completed" =>
            a_overall[a] = 25 * a_scores[a].questioning + 25 * a_scores[a].anxiety
                            + 30 * a_scores[a].closing + 20 * a_scores[a].flow

\* a completed analysis whose closing and flow scores differ
C9_Witness ==
    \E a \in AnalysisIds :
        /\ a_status[a] = "completed"
        /\ a_scores[a].closing = 10 /\ a_scores[a].flow = 1
        /\ a_scores[a].questioning = 1 /\ a_scores[a].anxiety = 10

\* ================================================== recording upload (SpecRecording)
\* POST /api/v1/recordings/ : a recording row is created, upload_status pending
create_recording(r) ==
    /\ upload_status[r] = "none"
    /\ \A q \in RecIds : q < r => upload_status[q] # "none"
    /\ upload_status' = [upload_status EXCEPT ![r] = "pending"]
    /\ UNCHANGED <<is_deleted, s3_object>>

s3_put_marks_completed(r) ==
    /\ s3_object' = [s3_object EXCEPT ![r] = TRUE]
    /\ upload_status' = [upload_status EXCEPT ![r] = "completed"]
    /\ UNCHANGED is_deleted

s3_put_marks_uploading(r) ==
    /\ s3_object' = [s3_object EXCEPT ![r] = TRUE]
    /\ upload_status' = [upload_status EXCEPT ![r] = "uploading"]
    /\ UNCHANGED is_deleted

\* the client's PUT of the blob to the presigned URL: only the object store changes
s3_put(r) ==
    /\ s3_object' = [s3_object EXCEPT ![r] = TRUE]
    /\ UNCHANGED <<upload_status, is_deleted>>

\* PUT /api/v1/recordings/{id}/complete : the row is marked completed
complete_upload(r) ==
    /\ upload_status[r] \in {"pending", "completed"}
    /\ ~is_deleted[r]
    /\ upload_status' = [upload_status EXCEPT ![r] = "completed"]
    /\ UNCHANGED <<is_deleted, s3_object>>

\* DELETE /api/v1/recordings/{id} (admin/manager): is_deleted set, file removed
delete_recording(r) ==
    /\ upload_status[r] # "none"
    /\ ~is_deleted[r]
    /\ is_deleted' = [is_deleted EXCEPT ![r] = TRUE]
    /\ s3_object' = [s3_object EXCEPT ![r] = FALSE]
    /\ last_op' = Op("delete", r, TRUE)
    /\ UNCHANGED <<upload_status, hu_pc, hu_rid>>
    /\ UNCHANGED <<varsT, varsA, sess_status, varsS, varsL, varsF>>

\* RecordingPage.handleUpload, step 1: create the record, get the upload URL
handleUpload_create(r) ==
    /\ hu_pc = "idle"
    /\ create_recording(r)
    /\ hu_pc' = "put"
    /\ hu_rid' = r
    /\ last_op' = Op("create", r, TRUE)
    /\ UNCHANGED <<varsT, varsA, sess_status, varsS, varsL, varsF>>

\* handleUpload, step 1 answered not ok: 'Failed to get upload URL'
handleUpload_create_failed ==
    /\ hu_pc = "idle"
    /\ last_op' = Op("create", 0, FALSE)
    /\ UNCHANGED <<varsT, varsA, sess_status, varsS, varsL, varsR, varsF>>

handleUpload_put_reports_failure ==
    /\ hu_pc = "put"
    /\ \/ /\ s3_put(hu_rid)
          /\ hu_pc' = "complete"
          /\ last_op' = Op("put", hu_rid, TRUE)
       \/ /\ hu_pc' = "idle"
          /\ last_op' = Op("put", hu_rid, FALSE)
          /\ upload_status' = [upload_status EXCEPT ![hu_rid] = "failed"]
          /\ UNCHANGED <<is_deleted, s3_object>>
    /\ UNCHANGED hu_rid
    /\ UNCHANGED <<varsT, varsA, sess_status, varsS, varsL, varsF>>

handleUpload_put_unchecked ==
    /\ hu_pc = "put"
    /\ \/ /\ s3_put(hu_rid)
          /\ last_op' = Op("put", hu_rid, TRUE)
       \/ /\ last_op' = Op("put", hu_rid, FALSE)
          /\ UNCHANGED <<upload_status, is_deleted, s3_object>>
    /\ hu_pc' = "complete"
    /\ UNCHANGED hu_rid
    /\ UNCHANGED <<varsT, varsA, sess_status, varsS, varsL, varsF>>

\* handleUpload, step 2: PUT the blob to the presigned URL
handleUpload_put ==
    /\ hu_pc = "put"
    /\ \/ /\ s3_put(hu_rid)
          /\ hu_pc' = "complete"
          /\ last_op' = Op("put", hu_rid, TRUE)
       \/ /\ hu_pc' = "idle"
          /\ last_op' = Op("put", hu_rid, FALSE)
          /\ UNCHANGED <<upload_status, is_deleted, s3_object>>
    /\ UNCHANGED hu_rid
    /\ UNCHANGED <<varsT, varsA, sess_status, varsS, varsL, varsF>>

\* handleUpload, step 3: mark the upload as complete
handleUpload_complete ==
    /\ hu_pc = "complete"
    /\ \/ /\ complete_upload(hu_rid)
          /\ hu_pc' = "success"
          /\ last_op' = Op("complete", hu_rid, TRUE)
       \/ /\ hu_pc' = "idle"
          /\ last_op' = Op("complete", hu_rid, FALSE)
          /\ UNCHANGED <<upload_status, is_deleted, s3_object>>
    /\ UNCHANGED hu_rid
    /\ UNCHANGED <<varsT, varsA, sess_status, varsS, varsL, varsF>>

\* handleRecordingComplete: a new recording arrives after a successful upload
handleRecordingComplete ==
    /\ hu_pc = "success"
    /\ hu_pc' = "idle"
    /\ last_op' = Op("recorded", 0, TRUE)
    /\ UNCHANGED <<upload_status, is_deleted, s3_object, hu_rid>>
    /\ UNCHANGED <<varsT, varsA, sess_status, varsS, varsL, varsF>>

\* the complete endpoint called by any other authenticated client
complete_call(r) ==
    /\ complete_upload(r)
    /\ last_op' = Op("complete", r, TRUE)
    /\ UNCHANGED <<hu_pc, hu_rid>>
    /\ UNCHANGED <<varsT, varsA, sess_status, varsS, varsL, varsF>>

InitRecording ==
    /\ InitRows
    /\ InitSignedIn
    /\ sess_status = [s \in SessIds |-> "none"]
    /\ upload_status = [r \in RecIds |-> "none"]
    /\ s3_object = [r \in RecIds |-> FALSE]

NextRecording ==
    \/ \E r \in RecIds : handleUpload_create(r)
    \/ handleUpload_create_failed
    \/ handleUpload_put
    \/ handleUpload_complete
    \/ handleRecordingComplete
    \/ \E r \in RecIds : complete_call(r)
    \/ \E r \in RecIds : delete_recording(r)

SpecRecording == InitRecording /\ [][NextRecording]_vars

\* C4: upload_status changes to completed only from pending and only as the
\* effect of the completion call for that recording; creating the record leaves
\* it pending and the PUT to the object store leaves it as it was.
C4_CompletedOnlyByCompleteCall ==
    [][\A r \in RecIds :
          /\ (upload_status[r] # "completed" /\ upload_status'[r] = "completed")
             => upload_status[r] = "pending" /\ last_op' = Op("complete", r, TRUE)
          /\ last_op' = Op("create", r, TRUE) => upload_status'[r] = "pending"
          /\ last_op' = Op("put", r, TRUE) => upload_status'[r] = upload_status[r]
      ]_vars

\* the file of a recording is in the object store and its row is still pending
C4_Witness ==
    \E r \in RecIds :
        /\ last_op = Op("put", r, TRUE)
        /\ s3_object[r] /\ upload_status[r] = "pending"

\* C5: upload_status never regresses: a completed recording stays completed.
C5_CompletedStays ==
    [][\A r \in RecIds :
          upload_status[r] = "completed" => upload_status'[r] = "completed"]_vars

\* a second completion call was served for a recording completed before, while
\* a later recording is still pending
C5_Witness ==
    \E r, q \in RecIds :
        /\ upload_status[r] = "completed" /\ hu_pc = "put" /\ hu_rid = q /\ q # r
        /\ last_op = Op("complete", r, TRUE)
        /\ upload_status[q] = "pending"

\* C16: a recording row that is pending stays pending in every step that is
\* not the completion call for that recording: a failed or abandoned upload,
\* the upload of other recordings and the deletion of the recording leave it
\* pending, and no other step exists.
C16_PendingUntilCompleteCall ==
    [][\A r \in RecIds :
          (upload_status[r] = "pending" /\ last_op' # Op("complete", r, TRUE))
          => upload_status'[r] = "pending"]_vars

\* an upload was given up after its record was created; a later recording was
\* uploaded and completed, and the earlier row is still pending
C16_Witness ==
    \E r, q \in RecIds :
        /\ r < q
        /\ upload_status[r] = "pending" /\ hu_rid = q
        /\ upload_status[q] = "completed" /\ hu_pc = "success"

\* ==================================================== session list (SpecAccess)
\* users of the seed data: two clinics, counselors, managers, one admin
UserTable ==
    [u \in {"c1", "c2", "c3", "m1", "m2", "ad"} |->
        CASE u = "c1" -> [role |-> "counselor", clinic_id |-> "tokyo"]
          [] u = "c2" -> [role |-> "counselor", clinic_id |-> "tokyo"]
          [] u = "c3" -> [role |-> "counselor", clinic_id |-> "osaka"]
          [] u = "m1" -> [role |-> "manager", clinic_id |-> "tokyo"]
          [] u = "m2" -> [role |-> "manager", clinic_id |-> "osaka"]
          [] u = "ad" -> [role |-> "admin", clinic_id |-> "tokyo"]]
UserIds == DOMAIN UserTable
Counselors == {u \in UserIds : UserTable[u].role = "counselor"}
Clinics == {"tokyo", "osaka"}

get_user_sessions_by_clinic(user) ==
    LET rows == {s \in SessIds : sess_status[s] # "none"}
    IN IF UserTable[user].role \in {"counselor", "manager"}
       THEN {s \in rows : s_clinic[s] = UserTable[user].clinic_id}
       ELSE rows

\* get_user_sessions: counselor -> own sessions, manager -> sessions of the
\* customers of the own clinic, admin -> all
get_user_sessions(user) ==
    LET rows == {s \in SessIds : sess_status[s] # "none"}
    IN IF UserTable[user].role = "counselor"
       THEN {s \in rows : s_counselor[s] = user}
       ELSE IF UserTable[user].role = "manager"
       THEN {s \in rows : s_clinic[s] = UserTable[user].clinic_id}
       ELSE rows

\* POST /api/v1/sessions/ : a sessions row, status DEFAULT 'recorded'
create_session(s, counselor, clinic) ==
    /\ sess_status[s] = "none"
    /\ \A q \in SessIds : q < s => sess_status[q] # "none"
    /\ sess_status' = [sess_status EXCEPT ![s] = "recorded"]
    /\ s_counselor' = [s_counselor EXCEPT ![s] = counselor]
    /\ s_clinic' = [s_clinic EXCEPT ![s] = clinic]
    /\ last_op' = Op("create_session", s, TRUE)
    /\ UNCHANGED <<varsT, varsA, varsL, varsR, varsF>>

\* GET /api/v1/sessions/ : the list with role-based filtering
list_sessions(user) ==
    /\ list_caller' = user
    /\ list_result' = get_user_sessions(user)
    /\ last_op' = Op("list_sessions", 0, TRUE)
    /\ UNCHANGED <<varsT, varsA, sess_status, varsS, varsR, varsF>>

NextAccess ==
    \/ \E s \in SessIds, counselor \in Counselors, clinic \in Clinics :
           create_session(s, counselor, clinic)
    \/ \E user \in UserIds : list_sessions(user)

SpecAccess == InitRecording /\ [][NextAccess]_vars

\* C6: the session list a counselor gets holds no session whose counselor_id
\* differs from the caller's id, whatever clinic the session belongs to.
C6_CounselorSeesOwnSessionsOnly ==
    list_caller \in Counselors =>
        \A s \in list_result : s_counselor[s] = list_caller

\* a counselor listed sessions while a colleague of the same clinic had one:
\* the own session of another clinic is listed, the colleague's is not
C6_Witness ==
    /\ list_caller \in Counselors
    /\ last_op.op = "list_sessions"
    /\ \E s \in list_result : s_clinic[s] # UserTable[list_caller].clinic_id
    /\ \E s \in SessIds \ list_result :
           /\ sess_status[s] # "none"
           /\ s_clinic[s] = UserTable[list_caller].clinic_id
           /\ s_counselor[s] # list_caller

\* ================================================= concurrent tasks (SpecPipeline)
\* every task id, the answers of a clear recording, no retries
NextPipeline ==
    \/ \E t \in TaskIds : startTranscription(t)
    \/ \E t \in TaskIds : transcribe_audio_task_begin(t)
    \/ \E t \in TaskIds, response \in NominalResponses :
           transcribe_audio_task_success(t, response)
    \/ \E t \in TaskIds : transcribe_audio_task_failure(t)
    \/ \E a \in AnalysisIds : startAnalysis(a)
    \/ \E a \in AnalysisIds : analysis_task_begin(a)
    \/ \E a \in AnalysisIds, r \in NominalLlmResponses :
           analysis_task_success(a, "full", r)
    \/ \E a \in AnalysisIds : analysis_task_failure(a)

SpecPipeline == Init /\ [][NextPipeline]_vars

SessionRank(status) ==
    CASE status = "none" -> 0
      [] status = "recorded" -> 1
      [] status = "transcribed" -> 2
      [] status = "analyzed" -> 3
      [] status = "completed" -> 4

\* C10: a session's status only advances in the order
\* recorded -> transcribed -> analyzed -> completed, never to an earlier status.
C10_SessionStatusMonotone ==
    [][\A s \in SessIds :
          SessionRank(sess_status'[s]) >= SessionRank(sess_status[s])]_vars

\* C13: an analysis task is created only by the analysis request of a client,
\* and only for a session that has a completed transcription; while the
\* session has no completed transcription (its tasks pending, processing or
\* failed) no analysis row exists.
C13_AnalysisAfterTranscription ==
    [][/\ \A a \in AnalysisIds :
            (a_status[a] = "none" /\ a_status'[a] # "none")
            => /\ last_op' = Op("analyze", a, TRUE)
               /\ \E t \in TaskIds : t_status[t] = "completed"
       /\ (\A t \in TaskIds : t_status'[t] # "completed")
          => \A a \in AnalysisIds : a_status'[a] = "none"
      ]_vars

\* an analysis has just been requested for a session with a completed
\* transcription, after an earlier transcription task of the session failed
C13_Witness ==
    \E a \in AnalysisIds, t, u \in TaskIds :
        /\ last_op = Op("analyze", a, TRUE) /\ a_status[a] = "pending"
        /\ t_status[t] = "completed" /\ t_status[u] = "failed"

\* C15: analysis requests for one session are not mutually excluded: while
\* analyses of the session are pending or processing and none has completed,
\* a further analysis request is accepted and creates a row of its own.
C15_AnalysisNotExcluded ==
    \A a, b \in AnalysisIds :
        (/\ a_status[a] \in {"pending", "processing"}
         /\ \A c \in AnalysisIds : a_status[c] # "completed"
         /\ a_status[b] = "none"
         /\ \A c \in AnalysisIds : c < b => a_status[c] # "none")
        => ENABLED startAnalysis(b)

\* two analysis rows of the one session, both still in progress, the later
\* one just accepted
C15_Witness ==
    \E a, b \in AnalysisIds :
        /\ a # b
        /\ a_status[a] \in {"pending", "processing"}
        /\ a_status[b] = "pending"
        /\ last_op = Op("analyze", b, TRUE)

\* ============================================ upload, then transcription (SpecSession)
\* the session exists, its recording is still to be uploaded
InitSession ==
    /\ InitRows
    /\ InitSignedIn
    /\ sess_status = [s \in SessIds |-> IF s = TheSession THEN "recorded" ELSE "none"]
    /\ upload_status = [r \in RecIds |-> "none"]
    /\ s3_object = [r \in RecIds |-> FALSE]

NextSession ==
    \/ \E r \in RecIds : handleUpload_create(r)
    \/ handleUpload_create_failed
    \/ handleUpload_put
    \/ handleUpload_complete
    \/ handleRecordingComplete
    \/ \E t \in TaskIds : startTranscription(t)
    \/ startTranscription_failed
    \/ \E t \in TaskIds : transcribe_audio_task_begin(t)

SpecSession == InitSession /\ [][NextSession]_vars

C17_UploadStepsInOrder ==
    [][/\ \A r \in RecIds :
            /\ (last_op'.op = "complete" /\ last_op'.id = r)
               => s3_object[r] /\ hu_pc = "complete" /\ hu_rid = r
            /\ (last_op'.op = "put" /\ last_op'.id = r)
               => upload_status[r] # "none" /\ hu_pc = "put" /\ hu_rid = r
       /\ hu_pc' = "success"
          => /\ upload_status'[hu_rid'] = "completed"
             /\ s3_object'[hu_rid']
             /\ hu_pc = "success" \/ last_op' = Op("complete", hu_rid', TRUE)
      ]_vars

\* an upload failed at its PUT, the next one went through all three steps
C17_Witness ==
    \E r, q \in RecIds :
        /\ r < q
        /\ upload_status[r] = "pending" /\ ~s3_object[r]
        /\ hu_pc = "success" /\ hu_rid = q
        /\ last_op = Op("complete", q, TRUE)

\* ================================================== status polling (SpecPolling)
\* GET /api/v1/transcription/ : the task rows as they are when it is served
list_transcription_tasks ==
    [t \in TaskIds |-> [status |-> t_status[t], error |-> t_error[t]]]

\* TranscriptionPage.fetchData, on mount and every 5 seconds: the list request
\* is sent and served; its answer is under way
fetchData_send ==
    /\ Len(tp_inflight) < MaxPolls
    /\ tp_inflight' = Append(tp_inflight, [data |-> list_transcription_tasks,
                                           overtaken |-> FALSE])
    /\ last_op' = Op("poll_sent", 0, TRUE)
    /\ UNCHANGED <<tp_tasks, tp_error, sd_error>>
    /\ UNCHANGED <<varsT, varsA, sess_status, varsS, varsL, varsR>>
    /\ UNCHANGED <<varsP, varsX>>

\* the requests still under way once the i-th was answered and applied: those
\* issued before it have been overtaken
AnswerRemoved(inflight, i) ==
    [j \in 1..(Len(inflight) - 1) |->
        IF j < i THEN [inflight[j] EXCEPT !.overtaken = TRUE]
        ELSE inflight[j + 1]]

\* fetchData, after the await: setTasks(tasksResponse.data); the requests are
\* answered in any order and each answer is applied as it arrives
fetchData_receive(i) ==
    /\ i \in 1..Len(tp_inflight)
    /\ tp_tasks' = tp_inflight[i].data
    /\ tp_inflight' = AnswerRemoved(tp_inflight, i)
    /\ last_op' = Op("poll", 0, TRUE)
    /\ UNCHANGED <<tp_error, sd_error>>
    /\ UNCHANGED <<varsT, varsA, sess_status, varsS, varsL, varsR>>
    /\ UNCHANGED <<varsP, varsX>>

\* fetchData, catch: the list request itself failed, setError
fetchData_failed ==
    /\ tp_error' = TRUE
    /\ last_op' = Op("poll", 0, FALSE)
    /\ UNCHANGED <<tp_tasks, tp_inflight, sd_error>>
    /\ UNCHANGED <<varsT, varsA, sess_status, varsS, varsL, varsR>>
    /\ UNCHANGED <<varsP, varsX>>

\* one transcription and one analysis of a clear recording, either of which
\* may fail at the external API, watched by the polling page
NextPolling ==
    \/ startTranscription(FirstOf(TaskIds))
    \/ startTranscription_failed
    \/ transcribe_audio_task_begin(FirstOf(TaskIds))
    \/ \E response \in NominalResponses :
           transcribe_audio_task_success(FirstOf(TaskIds), response)
    \/ transcribe_audio_task_failure(FirstOf(TaskIds))
    \/ startAnalysis(FirstOf(AnalysisIds))
    \/ startAnalysis_failed
    \/ analysis_task_begin(FirstOf(AnalysisIds))
    \/ \E r \in NominalLlmResponses :
           analysis_task_success(FirstOf(AnalysisIds), "full", r)
    \/ analysis_task_failure(FirstOf(AnalysisIds))
    \/ fetchData_send
    \/ \E i \in 1..Len(tp_inflight) : fetchData_receive(i)
    \/ fetchData_failed

SpecPolling == Init /\ [][NextPolling]_vars

\* C12: a failure of the external API call of a task is recorded on the task
\* row (status failed, error set) by the worker step; the request that created
\* the task was answered ok and left the row pending without error; the error
\* banners of the pages are set only by a request that was itself answered
\* with an error; and the page shows a task's error only after a poll.
C12_TaskErrorOnRowOnly ==
    [][/\ \A t \in TaskIds :
            /\ last_op' = Op("worker_failure", t, TRUE)
               => /\ t_status'[t] = "failed" /\ t_error'[t]
                  /\ UNCHANGED <<tp_tasks, tp_error, sd_error>>
            /\ (t_status[t] = "none" /\ t_status'[t] # "none")
               => /\ last_op' = Op("transcribe", t, TRUE)
                  /\ t_status'[t] = "pending" /\ ~t_error'[t]
                  /\ UNCHANGED sd_error
            /\ (tp_tasks'[t].error /\ ~tp_tasks[t].error)
               => last_op' = Op("poll", 0, TRUE) /\ t_error[t]
       /\ \A a \in AnalysisIds :
            /\ last_op' = Op("analysis_failure", a, TRUE)
               => /\ a_status'[a] = "failed" /\ a_error'[a]
                  /\ UNCHANGED <<tp_tasks, tp_error, sd_error>>
            /\ (a_status[a] = "none" /\ a_status'[a] # "none")
               => /\ last_op' = Op("analyze", a, TRUE)
                  /\ a_status'[a] = "pending" /\ ~a_error'[a]
                  /\ UNCHANGED sd_error
       /\ (sd_error' /\ ~sd_error)
          => last_op'.op \in {"transcribe", "analyze"} /\ ~last_op'.ok
       /\ (tp_error' /\ ~tp_error) => last_op' = Op("poll", 0, FALSE)
      ]_vars

\* the page shows a failed task with its error after a poll, and no request
\* was ever answered with an error
C12_Witness ==
    \E t \in TaskIds :
        /\ last_op = Op("poll", 0, TRUE)
        /\ tp_tasks[t].status = "failed" /\ tp_tasks[t].error
        /\ ~sd_error /\ ~tp_error

\* ================================================ nominal pipeline (SpecNominal)
\* The recording is uploaded and marked complete; both external APIs answer.
\* A started background task runs to its end and the page keeps polling.
NextNominal ==
    \/ startTranscription(FirstOf(TaskIds))
    \/ transcribe_audio_task_begin(FirstOf(TaskIds))
    \/ \E response \in NominalResponses :
           transcribe_audio_task_success(FirstOf(TaskIds), response)
    \/ startAnalysis(FirstOf(AnalysisIds))
    \/ analysis_task_begin(FirstOf(AnalysisIds))
    \/ \E r \in LlmResponses :
           analysis_task_success(FirstOf(AnalysisIds), "full", r)
    \/ fetchData_send
    \/ \E i \in 1..Len(tp_inflight) : fetchData_receive(i)

SpecNominal ==
    /\ Init
    /\ [][NextNominal]_vars
    /\ WF_vars(transcribe_audio_task_begin(FirstOf(TaskIds)))
    /\ WF_vars(\E response \in NominalResponses :
                   transcribe_audio_task_success(FirstOf(TaskIds), response))
    /\ WF_vars(analysis_task_begin(FirstOf(AnalysisIds)))
    /\ WF_vars(\E r \in LlmResponses :
                   analysis_task_success(FirstOf(AnalysisIds), "full", r))
    /\ WF_vars(fetchData_send)
    /\ WF_vars(\E i \in 1..Len(tp_inflight) : fetchData_receive(i))

\* C18: in the nominal pipeline a requested transcription is eventually
\* completed with a non-empty text and the polling page comes to show it
\* completed; a requested analysis is eventually completed with an
\* overall_score in [0,10] (0..1000 hundredths).
C18_NominalPipelineCompletes ==
    /\ \A t \in TaskIds :
          (t_status[t] = "pending")
          ~> (/\ t_status[t] = "completed" /\ t_text[t] # ""
              /\ tp_tasks[t].status = "completed")
    /\ \A a \in AnalysisIds :
          (a_status[a] = "pending")
          ~> (a_status[a] = "completed" /\ a_overall[a] \in 0..1000)

\* the page shows the completed transcription and the analysis is completed
\* with the highest score in every category
C18_Witness ==
    \E t \in TaskIds, a \in AnalysisIds :
        /\ tp_tasks[t].status = "completed" /\ t_text[t] # ""
        /\ a_status[a] = "completed" /\ a_overall[a] = 1000

\* ================================================== route guard (SpecRoute)
Roles == {"counselor", "manager", "admin"}
\* LayoutWrapper.isAuthPage: pages that are not wrapped in a ProtectedRoute
AuthPages == {"/login", "/auth/expired"}
\* the fallbackUrl prop: its default, or a page given by the caller
FallbackUrls == {"/login", "/auth/expired"}

roleHierarchy_flat == [admin |-> 1, manager |-> 1, counselor |-> 1]

\* const roleHierarchy = { admin: 3, manager: 2, counselor: 1 }
roleHierarchy == [admin |-> 3, manager |-> 2, counselor |-> 1]

\* AuthProvider: isAuthenticated: !!user
isAuthenticated(user) == user # "none"

InsufficientRole(user, required) ==
    /\ required # "none"
    /\ user # "none"
    /\ roleHierarchy[user] < roleHierarchy[required]

ProtectedRoute_render_noauth(loading, user, required) ==
    IF loading THEN "spinner"
    ELSE IF InsufficientRole(user, required) THEN "null"
    ELSE "children"

\* ProtectedRoute, the render: spinner, nothing, or the children
ProtectedRoute_render(loading, user, required) ==
    IF loading THEN "spinner"
    ELSE IF ~isAuthenticated(user) THEN "null"
    ELSE IF InsufficientRole(user, required) THEN "null"
    ELSE "children"

\* what the page shows once the new state is committed
Render ==
    rendered' = IF pathname' \in AuthPages THEN "unmounted"
                ELSE ProtectedRoute_render(auth_loading', auth_user', requiredRole')

\* the effect runs after a commit that changed one of its dependencies
EffectAfterCommit ==
    effect_due' =
        IF pathname' \in AuthPages THEN FALSE
        ELSE \/ effect_due
             \/ <<auth_loading', auth_user', requiredRole', fallbackUrl'>>
                    # <<auth_loading, auth_user, requiredRole, fallbackUrl>>

RouteFrame ==
    UNCHANGED <<varsT, varsA, sess_status, varsS, varsL, varsR, varsU, varsX>>

\* AuthProvider.initAuth up to the await: the saved user is set unverified
initAuth_start ==
    /\ init_pc = "start"
    /\ IF ls_token # "none" /\ ls_user # "none"
       THEN /\ auth_user' = ls_user
            /\ init_pc' = "verifying"
            /\ UNCHANGED auth_loading
       ELSE /\ auth_loading' = FALSE
            /\ init_pc' = "done"
            /\ UNCHANGED auth_user
    /\ last_op' = Op("initAuth", 0, TRUE)
    /\ UNCHANGED <<ls_token, ls_user, login_pc, pathname, requiredRole, fallbackUrl>>
    /\ Render /\ EffectAfterCommit
    /\ RouteFrame

\* initAuth: testToken answered without error
initAuth_verified ==
    /\ init_pc = "verifying"
    /\ ls_token = "valid"
    /\ auth_loading' = FALSE
    /\ init_pc' = "done"
    /\ last_op' = Op("testToken", 0, TRUE)
    /\ UNCHANGED <<auth_user, ls_token, ls_user, login_pc, pathname, requiredRole,
                   fallbackUrl>>
    /\ Render /\ EffectAfterCommit
    /\ RouteFrame

\* initAuth: testToken answered with an error or threw; setUser(null) and
\* setLoading(false) are committed together or one after the other
initAuth_rejected ==
    /\ init_pc = "verifying"
    /\ ls_token' = "none"
    /\ ls_user' = "none"
    /\ auth_user' = "none"
    /\ \/ auth_loading' = FALSE /\ init_pc' = "done"
       \/ UNCHANGED auth_loading /\ init_pc' = "finishing"
    /\ last_op' = Op("testToken", 0, FALSE)
    /\ UNCHANGED <<login_pc, pathname, requiredRole, fallbackUrl>>
    /\ Render /\ EffectAfterCommit
    /\ RouteFrame

\* initAuth: the closing setLoading(false), committed on its own
initAuth_finish ==
    /\ init_pc = "finishing"
    /\ auth_loading' = FALSE
    /\ init_pc' = "done"
    /\ last_op' = Op("initAuth", 0, TRUE)
    /\ UNCHANGED <<auth_user, ls_token, ls_user, login_pc, pathname, requiredRole,
                   fallbackUrl>>
    /\ Render /\ EffectAfterCommit
    /\ RouteFrame

\* AuthProvider.login, up to the first await: setLoading(true)
login_begin ==
    /\ login_pc = "idle"
    /\ pathname \in AuthPages
    /\ auth_loading' = TRUE
    /\ login_pc' = "login_sent"
    /\ last_op' = Op("login", 0, TRUE)
    /\ UNCHANGED <<auth_user, ls_token, ls_user, init_pc, pathname, requiredRole,
                   fallbackUrl>>
    /\ Render /\ EffectAfterCommit
    /\ RouteFrame

\* login: authApi.login answered; the token is stored, or the error is thrown
login_answered ==
    /\ login_pc = "login_sent"
    /\ \/ /\ ls_token' = "valid"
          /\ login_pc' = "me_sent"
          /\ last_op' = Op("login_answer", 0, TRUE)
          /\ UNCHANGED auth_loading
       \/ /\ auth_loading' = FALSE
          /\ login_pc' = "idle"
          /\ last_op' = Op("login_answer", 0, FALSE)
          /\ UNCHANGED ls_token
    /\ UNCHANGED <<auth_user, ls_user, init_pc, pathname, requiredRole, fallbackUrl>>
    /\ Render /\ EffectAfterCommit
    /\ RouteFrame

\* login: authApi.getMe answered with the user; setUser and the closing
\* setLoading(false) are committed together or one after the other
getMe_answered(role) ==
    /\ login_pc = "me_sent"
    /\ ls_user' = role
    /\ auth_user' = role
    /\ \/ auth_loading' = FALSE /\ login_pc' = "idle"
       \/ UNCHANGED auth_loading /\ login_pc' = "finishing"
    /\ last_op' = Op("getMe", 0, TRUE)
    /\ UNCHANGED <<ls_token, init_pc, pathname, requiredRole, fallbackUrl>>
    /\ Render /\ EffectAfterCommit
    /\ RouteFrame

\* login: authApi.getMe failed: 'Failed to get user info', finally
getMe_failed ==
    /\ login_pc = "me_sent"
    /\ auth_loading' = FALSE
    /\ login_pc' = "idle"
    /\ last_op' = Op("getMe", 0, FALSE)
    /\ UNCHANGED <<auth_user, ls_token, ls_user, init_pc, pathname, requiredRole,
                   fallbackUrl>>
    /\ Render /\ EffectAfterCommit
    /\ RouteFrame

\* login: the closing setLoading(false), committed on its own
login_finish ==
    /\ login_pc = "finishing"
    /\ auth_loading' = FALSE
    /\ login_pc' = "idle"
    /\ last_op' = Op("login", 0, TRUE)
    /\ UNCHANGED <<auth_user, ls_token, ls_user, init_pc, pathname, requiredRole,
                   fallbackUrl>>
    /\ Render /\ EffectAfterCommit
    /\ RouteFrame

\* AuthProvider.logout, from the button the Header shows when authenticated
logout ==
    /\ rendered = "children"
    /\ isAuthenticated(auth_user)
    /\ ls_token' = "none"
    /\ ls_user' = "none"
    /\ auth_user' = "none"
    /\ last_op' = Op("logout", 0, TRUE)
    /\ UNCHANGED <<auth_loading, init_pc, login_pc, pathname, requiredRole,
                   fallbackUrl>>
    /\ Render /\ EffectAfterCommit
    /\ RouteFrame

\* the user opens a page wrapped in <ProtectedRoute requiredRole fallbackUrl>
navigate(required, fallback) ==
    /\ pathname' = "/protected"
    /\ requiredRole' = required
    /\ fallbackUrl' = fallback
    /\ effect_due' = TRUE
    /\ last_op' = Op("navigate", 0, TRUE)
    /\ UNCHANGED <<auth_user, auth_loading, ls_token, ls_user, init_pc, login_pc>>
    /\ Render
    /\ RouteFrame

\* ProtectedRoute, the effect: router.push(fallbackUrl) for an unauthenticated
\* user, router.push('/dashboard') for a role below the required one; the
\* dashboard is itself wrapped in a ProtectedRoute without requiredRole
ProtectedRoute_effect ==
    /\ effect_due
    /\ pathname \notin AuthPages
    /\ IF ~auth_loading /\ ~isAuthenticated(auth_user)
       THEN /\ pathname' = fallbackUrl
            /\ effect_due' = FALSE
            /\ last_op' = Op("push_fallback", 0, TRUE)
            /\ UNCHANGED <<requiredRole, fallbackUrl>>
       ELSE IF ~auth_loading /\ InsufficientRole(auth_user, requiredRole)
       THEN /\ pathname' = "/dashboard"
            /\ requiredRole' = "none"
            /\ fallbackUrl' = "/login"
            /\ effect_due' = TRUE
            /\ last_op' = Op("push_dashboard", 0, TRUE)
       ELSE /\ effect_due' = FALSE
            /\ last_op' = Op("effect", 0, TRUE)
            /\ UNCHANGED <<pathname, requiredRole, fallbackUrl>>
    /\ UNCHANGED <<auth_user, auth_loading, ls_token, ls_user, init_pc, login_pc>>
    /\ Render
    /\ RouteFrame

\* the application is loaded: nothing, a valid or an expired session in
\* localStorage; a login page or a protected page is opened
InitRoute ==
    /\ InitRows
    /\ sess_status = [s \in SessIds |-> "none"]
    /\ upload_status = [r \in RecIds |-> "none"]
    /\ s3_object = [r \in RecIds |-> FALSE]
    /\ auth_user = "none"
    /\ auth_loading = TRUE
    /\ \E token \in {"none", "valid", "expired"}, saved \in Roles \cup {"none"} :
           /\ (token = "none") = (saved = "none")
           /\ ls_token = token
           /\ ls_user = saved
    /\ init_pc = "start"
    /\ login_pc = "idle"
    /\ pathname \in {"/protected", "/login"}
    /\ requiredRole \in {"none"} \cup Roles
    /\ fallbackUrl \in FallbackUrls
    /\ rendered = IF pathname \in AuthPages THEN "unmounted" ELSE "spinner"
    /\ effect_due = (pathname \notin AuthPages)

NextRoute ==
    \/ initAuth_start
    \/ initAuth_verified
    \/ initAuth_rejected
    \/ initAuth_finish
    \/ login_begin
    \/ login_answered
    \/ \E role \in Roles : getMe_answered(role)
    \/ getMe_failed
    \/ login_finish
    \/ logout
    \/ \E required \in {"none"} \cup Roles, fallback \in FallbackUrls :
           navigate(required, fallback)
    \/ ProtectedRoute_effect

SpecRoute == InitRoute /\ [][NextRoute]_vars

RoleLevel(role) ==
    CASE role = "admin" -> 3
      [] role = "manager" -> 2
      [] role = "counselor" -> 1

BelowRequiredLevel ==
    /\ auth_user # "none"
    /\ requiredRole # "none"
    /\ RoleLevel(auth_user) < RoleLevel(requiredRole)

\* C20: with a requiredRole, the children are rendered only for a user whose
\* level in admin(3) > manager(2) > counselor(1) is at least the required
\* level; a user below it is shown nothing, the effect is due, and when it runs
\* it navigates to /dashboard.
C20_RoleHierarchyGuard ==
    /\ []((rendered = "children" /\ requiredRole # "none")
            => /\ auth_user # "none"
               /\ RoleLevel(auth_user) >= RoleLevel(requiredRole))
    /\ []((pathname \notin AuthPages /\ ~auth_loading /\ BelowRequiredLevel)
            => rendered = "null" /\ effect_due)
    /\ [][(/\ last_op'.op \in {"effect", "push_fallback", "push_dashboard"}
           /\ ~auth_loading /\ BelowRequiredLevel)
          => pathname' = "/dashboard" /\ last_op'.op = "push_dashboard"]_vars

\* a manager opened a page that requires admin and was sent to the dashboard,
\* which is shown
C20_Witness ==
    /\ last_op = Op("push_dashboard", 0, TRUE)
    /\ pathname = "/dashboard"
    /\ auth_user = "manager" /\ rendered = "children"

\* ------------------------------------------------- expired sessions (401)
\* Every request of AuthProvider goes through the axios instance `api`, whose
\* response interceptor handles a 401; the pages call fetch() themselves.

AuthFrame ==
    UNCHANGED <<varsT, varsA, sess_status, varsS, varsL, varsR, varsM, varsC,
                varsG>>

\* the server stops accepting the token that is stored in the browser
token_expires ==
    /\ ls_token = "valid"
    /\ ls_token' = "expired"
    /\ last_op' = Op("token_expires", 0, TRUE)
    /\ UNCHANGED <<auth_user, auth_loading, ls_user, init_pc, login_pc, pathname,
                   requiredRole, fallbackUrl, rendered, effect_due>>
    /\ UNCHANGED <<varsU, varsX>>
    /\ AuthFrame

\* api.interceptors.response, error.response.status === 401: both items are
\* removed from localStorage and window.location.href = '/login' starts a load
ResponseInterceptor401 ==
    /\ ls_token' = "none"
    /\ ls_user' = "none"
    /\ reload_due' = TRUE

\* initAuth: authApi.testToken answered 401; the interceptor runs, apiCall
\* returns the error and initAuth clears the user
initAuth_unauthorized ==
    /\ init_pc = "verifying"
    /\ ls_token # "valid"
    /\ ResponseInterceptor401
    /\ auth_user' = "none"
    /\ \/ auth_loading' = FALSE /\ init_pc' = "done"
       \/ UNCHANGED auth_loading /\ init_pc' = "finishing"
    /\ last_op' = Op("testToken_401", 0, FALSE)
    /\ UNCHANGED <<login_pc, pathname, requiredRole, fallbackUrl>>
    /\ Render /\ EffectAfterCommit
    /\ UNCHANGED varsU
    /\ AuthFrame

\* login: authApi.login answered 401 (wrong credentials); the interceptor runs,
\* login throws and its finally block clears loading; user is not touched
login_unauthorized ==
    /\ login_pc = "login_sent"
    /\ ResponseInterceptor401
    /\ auth_loading' = FALSE
    /\ login_pc' = "idle"
    /\ last_op' = Op("login_401", 0, FALSE)
    /\ UNCHANGED <<auth_user, init_pc, pathname, requiredRole, fallbackUrl>>
    /\ Render /\ EffectAfterCommit
    /\ UNCHANGED varsU
    /\ AuthFrame

\* login: authApi.getMe answered 401; the interceptor runs, login throws
getMe_unauthorized ==
    /\ login_pc = "me_sent"
    /\ ls_token # "valid"
    /\ ResponseInterceptor401
    /\ auth_loading' = FALSE
    /\ login_pc' = "idle"
    /\ last_op' = Op("getMe_401", 0, FALSE)
    /\ UNCHANGED <<auth_user, init_pc, pathname, requiredRole, fallbackUrl>>
    /\ Render /\ EffectAfterCommit
    /\ UNCHANGED varsU
    /\ AuthFrame

\* SessionDetailPage.fetchSessionDetail answered 401: fetch() resolves, the
\* page tests response.ok, throws and shows its error banner
fetchSessionDetail_unauthorized ==
    /\ rendered = "children"
    /\ ls_token # "valid"
    /\ sd_error' = TRUE
    /\ last_op' = Op("fetch_401", 0, FALSE)
    /\ UNCHANGED <<tp_tasks, tp_error, tp_inflight>>
    /\ UNCHANGED <<varsP, varsX>>
    /\ AuthFrame

\* the load started by window.location.href = '/login': the application
\* starts again on the login page, its banners gone with the old document
page_load ==
    /\ reload_due
    /\ reload_due' = FALSE
    /\ auth_user' = "none"
    /\ auth_loading' = TRUE
    /\ init_pc' = "start"
    /\ login_pc' = "idle"
    /\ pathname' = "/login"
    /\ rendered' = "unmounted"
    /\ effect_due' = FALSE
    /\ sd_error' = FALSE
    /\ tp_error' = FALSE
    /\ tp_inflight' = <<>>
    /\ last_op' = Op("page_load", 0, TRUE)
    /\ UNCHANGED <<ls_token, ls_user, requiredRole, fallbackUrl, tp_tasks>>
    /\ AuthFrame

NextAuth ==
    \/ NextRoute
    \/ token_expires
    \/ initAuth_unauthorized
    \/ login_unauthorized
    \/ getMe_unauthorized
    \/ fetchSessionDetail_unauthorized
    \/ page_load

SpecAuth == InitRoute /\ [][NextAuth]_vars

\* the steps in which a response with status 401 was served
Served401 == {"testToken_401", "login_401", "getMe_401", "fetch_401"}

\* C21: whenever a response with status 401 is served, the stored access_token
\* and the stored user are both removed and a load of /login is started, and
\* that load ends on /login with no user in memory.
C21_UnauthorizedLogsOut ==
    /\ [][last_op'.op \in Served401
          => ls_token' = "none" /\ ls_user' = "none" /\ reload_due']_vars
    /\ [][last_op'.op = "page_load"
          => pathname' = "/login" /\ auth_user' = "none"]_vars

\* C28: when login() throws, after authApi.login failed or after the token was
\* obtained and authApi.getMe failed, no access_token is left in localStorage
\* and the user is null.
C28_LoginAllOrNothing ==
    /\ [][(last_op'.op \in {"login_answer", "login_401"} /\ ~last_op'.ok)
          => /\ ls_token' \in {ls_token, "none"}
             /\ (auth_user = "none" => auth_user' = "none")]_vars
    /\ [][(last_op'.op \in {"getMe", "getMe_401"} /\ ~last_op'.ok)
          => /\ ls_token' = "none"
             /\ (auth_user = "none" => auth_user' = "none")]_vars

\* C29: whenever isAuthenticated is true an access_token is in localStorage.
C29_AuthenticatedHasToken ==
    isAuthenticated(auth_user) => ls_token # "none"

\* ------------------------------------------------------ the audio recorder
\* useMediaRecorder, AudioRecorder and RecordingPage. A call of
\* handleStartRecording acquires two streams: the hook's (streamRef) and the
\* component's (stream, for the level meter).

HookStream(c) == c
VizStream(c) == MaxStarts + c
Active == {"recording", "paused"}

RecorderFrame ==
    UNCHANGED <<varsT, varsA, sess_status, varsS, varsL, varsR, varsU, varsP,
                varsN>>

PageState == <<recordedBlob, isUploading, uploadSuccess, page_error>>

\* React handles a click after the effects of the last commit have run
EffectsFlushed == mounted /\ ~blob_effect_due /\ ~max_effect_due

\* setState of the hook: ignored once the component is unmounted
setState(new) == state' = IF mounted THEN new ELSE state

\* the hook's timer effect, dependencies [isRecording, isPaused,
\* updateDuration]: its cleanup clears the interval, its body sets a new one
\* while recording and not paused; cleaned: cleanup() ran in the handler
TimerEffect(cleaned) ==
    timerRef' =
        IF ~mounted' THEN FALSE
        ELSE IF <<state'.isRecording, state'.isPaused>>
                  # <<state.isRecording, state.isPaused>>
        THEN state'.isRecording /\ ~state'.isPaused
        ELSE IF cleaned THEN FALSE ELSE timerRef

\* AudioRecorder's effects become due when one of their dependencies changed:
\* [state.blob, onRecordingComplete, stream] (the page passes a new
\* handleRecordingComplete with each of its renders) and [state.duration,
\* maxDuration, state.isRecording]
EffectsDue(ran_blob, ran_max) ==
    /\ blob_effect_due' =
           (mounted' /\ \/ blob_effect_due /\ ~ran_blob
                        \/ state'.blob # state.blob
                        \/ stream' # stream
                        \/ PageState' # PageState)
    /\ max_effect_due' =
           (mounted' /\ \/ max_effect_due /\ ~ran_max
                        \/ state'.duration # state.duration
                        \/ state'.isRecording # state.isRecording)

\* the recorders that stop because stop() was called on them or because the
\* tracks of their stream were stopped
Stopping(called, ended) ==
    {c \in CallIds : mr_state[c] \in Active
                     /\ (c \in called \/ HookStream(c) \in ended)}

\* the user clicks the start button, shown while !isRecording:
\* handleStartRecording calls startRecording, which clears the error and awaits
\* getUserMedia
handleStartRecording(c) ==
    /\ EffectsFlushed
    /\ ~state.isRecording
    /\ start_pc[c] = "idle"
    /\ \A d \in CallIds : d < c => start_pc[d] # "idle"
    /\ setState([state EXCEPT !.error = FALSE])
    /\ start_pc' = [start_pc EXCEPT ![c] = "getUserMedia"]
    /\ last_op' = Op("handleStartRecording", c, TRUE)
    /\ UNCHANGED <<mediaRecorderRef, streamRef, startTimeRef, now, mr_state,
                   onstop_due, live_streams, active_time, stream, mounted>>
    /\ UNCHANGED varsG
    /\ TimerEffect(FALSE) /\ EffectsDue(FALSE, FALSE)
    /\ RecorderFrame

\* startRecording: getUserMedia resolved, the MediaRecorder was created and
\* started
startRecording_granted(c) ==
    /\ start_pc[c] = "getUserMedia"
    /\ live_streams' = live_streams \cup {HookStream(c)}
    /\ streamRef' = HookStream(c)
    /\ mediaRecorderRef' = c
    /\ mr_state' = [mr_state EXCEPT ![c] = "recording"]
    /\ startTimeRef' = now
    /\ active_time' = IF mounted THEN 0 ELSE active_time
    /\ setState([state EXCEPT !.isRecording = TRUE, !.isPaused = FALSE,
                              !.duration = 0, !.blob = 0])
    /\ start_pc' = [start_pc EXCEPT ![c] = "visualizer"]
    /\ last_op' = Op("startRecording", c, TRUE)
    /\ UNCHANGED <<now, onstop_due, stream, mounted>>
    /\ UNCHANGED varsG
    /\ TimerEffect(FALSE) /\ EffectsDue(FALSE, FALSE)
    /\ RecorderFrame

\* startRecording: getUserMedia resolved, then new MediaRecorder(stream,
\* {mimeType}) or start() threw; the catch block reports the error
startRecording_unsupported(c) ==
    /\ start_pc[c] = "getUserMedia"
    /\ live_streams' = live_streams \cup {HookStream(c)}
    /\ streamRef' = HookStream(c)
    /\ setState([state EXCEPT !.error = TRUE, !.isRecording = FALSE])
    /\ start_pc' = [start_pc EXCEPT ![c] = "visualizer"]
    /\ last_op' = Op("startRecording_unsupported", c, FALSE)
    /\ UNCHANGED <<mediaRecorderRef, startTimeRef, now, mr_state, onstop_due,
                   active_time, stream, mounted>>
    /\ UNCHANGED varsG
    /\ TimerEffect(FALSE) /\ EffectsDue(FALSE, FALSE)
    /\ RecorderFrame

\* startRecording: getUserMedia rejected; the catch block reports the error
startRecording_denied(c) ==
    /\ start_pc[c] = "getUserMedia"
    /\ setState([state EXCEPT !.error = TRUE, !.isRecording = FALSE])
    /\ start_pc' = [start_pc EXCEPT ![c] = "visualizer"]
    /\ last_op' = Op("startRecording_denied", c, FALSE)
    /\ UNCHANGED <<mediaRecorderRef, streamRef, startTimeRef, now, mr_state,
                   onstop_due, live_streams, active_time, stream, mounted>>
    /\ UNCHANGED varsG
    /\ TimerEffect(FALSE) /\ EffectsDue(FALSE, FALSE)
    /\ RecorderFrame

\* handleStartRecording after startRecording returned (it never throws): the
\* second getUserMedia resolved, setStream(mediaStream)
visualizer_granted(c) ==
    /\ start_pc[c] = "visualizer"
    /\ live_streams' = live_streams \cup {VizStream(c)}
    /\ stream' = IF mounted THEN VizStream(c) ELSE stream
    /\ start_pc' = [start_pc EXCEPT ![c] = "done"]
    /\ last_op' = Op("setStream", c, TRUE)
    /\ UNCHANGED <<state, mediaRecorderRef, streamRef, startTimeRef, now,
                   mr_state, onstop_due, active_time, mounted>>
    /\ UNCHANGED varsG
    /\ TimerEffect(FALSE) /\ EffectsDue(FALSE, FALSE)
    /\ RecorderFrame

\* handleStartRecording: the second getUserMedia rejected; onError sets the
\* page's error
visualizer_denied(c) ==
    /\ start_pc[c] = "visualizer"
    /\ page_error' = IF mounted THEN TRUE ELSE page_error
    /\ start_pc' = [start_pc EXCEPT ![c] = "done"]
    /\ last_op' = Op("setStream", c, FALSE)
    /\ UNCHANGED <<state, mediaRecorderRef, streamRef, startTimeRef, now,
                   mr_state, onstop_due, live_streams, active_time, stream,
                   mounted>>
    /\ UNCHANGED <<recordedBlob, isUploading, uploadSuccess, hu_blob, uploaded>>
    /\ TimerEffect(FALSE) /\ EffectsDue(FALSE, FALSE)
    /\ RecorderFrame

\* AudioRecorder.handleStopRecording: stopRecording() stops the recorder in
\* mediaRecorderRef unless it is inactive and runs cleanup(), which stops the
\* tracks of streamRef's stream and clears the timer; then the tracks of the
\* component's stream are stopped and setStream(null)
handleStopRecording_body ==
    /\ mr_state' = [c \in CallIds |->
                       IF c \in Stopping({mediaRecorderRef}, {streamRef})
                       THEN "inactive" ELSE mr_state[c]]
    /\ onstop_due' = onstop_due \cup Stopping({mediaRecorderRef}, {streamRef})
    /\ live_streams' = live_streams \ {streamRef, stream}
    /\ streamRef' = 0
    /\ stream' = 0

\* the user clicks the stop button, shown while isRecording
handleStopRecording ==
    /\ EffectsFlushed
    /\ state.isRecording
    /\ handleStopRecording_body
    /\ last_op' = Op("handleStopRecording", 0, TRUE)
    /\ UNCHANGED <<state, mediaRecorderRef, startTimeRef, now, active_time,
                   mounted, start_pc>>
    /\ UNCHANGED varsG
    /\ TimerEffect(TRUE) /\ EffectsDue(FALSE, FALSE)
    /\ RecorderFrame

\* the user clicks the pause button, shown while isRecording and !isPaused
pauseRecording ==
    /\ EffectsFlushed
    /\ state.isRecording /\ ~state.isPaused
    /\ IF mediaRecorderRef # 0 /\ mr_state[mediaRecorderRef] = "recording"
       THEN /\ mr_state' = [mr_state EXCEPT ![mediaRecorderRef] = "paused"]
            /\ setState([state EXCEPT !.isPaused = TRUE])
            /\ last_op' = Op("pauseRecording", mediaRecorderRef, TRUE)
       ELSE /\ UNCHANGED <<mr_state, state>>
            /\ last_op' = Op("pauseRecording", 0, FALSE)
    /\ UNCHANGED <<mediaRecorderRef, streamRef, startTimeRef, now, onstop_due,
                   live_streams, active_time, stream, mounted, start_pc>>
    /\ UNCHANGED varsG
    /\ TimerEffect(FALSE) /\ EffectsDue(FALSE, FALSE)
    /\ RecorderFrame

\* the user clicks the resume button, shown while isRecording and isPaused
resumeRecording ==
    /\ EffectsFlushed
    /\ state.isRecording /\ state.isPaused
    /\ IF mediaRecorderRef # 0 /\ mr_state[mediaRecorderRef] = "paused"
       THEN /\ mr_state' = [mr_state EXCEPT ![mediaRecorderRef] = "recording"]
            /\ setState([state EXCEPT !.isPaused = FALSE])
            /\ last_op' = Op("resumeRecording", mediaRecorderRef, TRUE)
       ELSE /\ UNCHANGED <<mr_state, state>>
            /\ last_op' = Op("resumeRecording", 0, FALSE)
    /\ UNCHANGED <<mediaRecorderRef, streamRef, startTimeRef, now, onstop_due,
                   live_streams, active_time, stream, mounted, start_pc>>
    /\ UNCHANGED varsG
    /\ TimerEffect(FALSE) /\ EffectsDue(FALSE, FALSE)
    /\ RecorderFrame

\* mediaRecorder.onstop of the recorder of call c: the blob is built
mediaRecorder_onstop(c) ==
    /\ c \in onstop_due
    /\ onstop_due' = onstop_due \ {c}
    /\ setState([state EXCEPT !.blob = c, !.isRecording = FALSE,
                              !.isPaused = FALSE])
    /\ last_op' = Op("onstop", c, TRUE)
    /\ UNCHANGED <<mediaRecorderRef, streamRef, startTimeRef, now, mr_state,
                   live_streams, active_time, stream, mounted, start_pc>>
    /\ UNCHANGED varsG
    /\ TimerEffect(FALSE) /\ EffectsDue(FALSE, FALSE)
    /\ RecorderFrame

\* mediaRecorder.onerror of the recorder of call c: the browser has made it
\* inactive and will fire stop; the handler reports the error and runs
\* cleanup()
mediaRecorder_onerror(c) ==
    /\ mr_state[c] \in Active
    /\ mr_state' = [d \in CallIds |->
                       IF d \in Stopping({c}, {streamRef})
                       THEN "inactive" ELSE mr_state[d]]
    /\ onstop_due' = onstop_due \cup Stopping({c}, {streamRef})
    /\ setState([state EXCEPT !.error = TRUE, !.isRecording = FALSE,
                              !.isPaused = FALSE])
    /\ live_streams' = live_streams \ {streamRef}
    /\ streamRef' = 0
    /\ last_op' = Op("onerror", c, FALSE)
    /\ UNCHANGED <<mediaRecorderRef, startTimeRef, now, active_time, stream,
                   mounted, start_pc>>
    /\ UNCHANGED varsG
    /\ TimerEffect(TRUE) /\ EffectsDue(FALSE, FALSE)
    /\ RecorderFrame

\* time passes
tick ==
    /\ now < MaxNow
    /\ now' = now + 1
    /\ active_time' = IF state.isRecording /\ ~state.isPaused
                      THEN active_time + 1 ELSE active_time
    /\ last_op' = Op("tick", 0, TRUE)
    /\ UNCHANGED <<state, mediaRecorderRef, streamRef, timerRef, startTimeRef,
                   mr_state, onstop_due, live_streams>>
    /\ UNCHANGED <<varsC, varsG>>
    /\ RecorderFrame

\* the interval fires: updateDuration, created while isRecording && !isPaused
updateDuration ==
    /\ timerRef
    /\ setState([state EXCEPT !.duration = now - startTimeRef])
    /\ last_op' = Op("updateDuration", 0, TRUE)
    /\ UNCHANGED <<mediaRecorderRef, streamRef, startTimeRef, now, mr_state,
                   onstop_due, live_streams, active_time, stream, mounted,
                   start_pc>>
    /\ UNCHANGED varsG
    /\ TimerEffect(FALSE) /\ EffectsDue(FALSE, FALSE)
    /\ RecorderFrame

\* the maximum duration effect without its call of handleStopRecording: a
\* mutant
maxDuration_effect_nostop ==
    /\ max_effect_due
    /\ last_op' = Op("maxDuration_effect", 0, TRUE)
    /\ UNCHANGED <<mr_state, onstop_due, live_streams, streamRef, stream>>
    /\ UNCHANGED <<state, mediaRecorderRef, startTimeRef, now, active_time,
                   mounted, start_pc>>
    /\ UNCHANGED varsG
    /\ TimerEffect(FALSE)
    /\ EffectsDue(FALSE, TRUE)
    /\ RecorderFrame

\* AudioRecorder, the maximum duration effect
maxDuration_effect ==
    /\ max_effect_due
    /\ IF state.duration >= MaxDuration /\ state.isRecording
       THEN /\ handleStopRecording_body
            /\ last_op' = Op("maxDuration_stop", 0, TRUE)
       ELSE /\ UNCHANGED <<mr_state, onstop_due, live_streams, streamRef, stream>>
            /\ last_op' = Op("maxDuration_effect", 0, TRUE)
    /\ UNCHANGED <<state, mediaRecorderRef, startTimeRef, now, active_time,
                   mounted, start_pc>>
    /\ UNCHANGED varsG
    /\ TimerEffect(state.duration >= MaxDuration /\ state.isRecording)
    /\ EffectsDue(FALSE, TRUE)
    /\ RecorderFrame

\* RecordingPage.handleRecordingComplete(blob)
handleRecordingComplete_page(b) ==
    /\ recordedBlob' = b
    /\ uploadSuccess' = FALSE
    /\ page_error' = FALSE

\* AudioRecorder, the recording complete effect: onRecordingComplete(state.blob)
\* when there is a blob, and the component's stream is stopped
recordingComplete_effect ==
    /\ blob_effect_due
    /\ IF state.blob # 0
       THEN /\ handleRecordingComplete_page(state.blob)
            /\ live_streams' = live_streams \ {stream}
            /\ stream' = 0
            /\ last_op' = Op("onRecordingComplete", state.blob, TRUE)
       ELSE /\ UNCHANGED <<recordedBlob, uploadSuccess, page_error, live_streams,
                           stream>>
            /\ last_op' = Op("recordingComplete_effect", 0, TRUE)
    /\ UNCHANGED <<state, mediaRecorderRef, streamRef, timerRef, startTimeRef,
                   now, mr_state, onstop_due, active_time, mounted, start_pc>>
    /\ UNCHANGED <<isUploading, hu_blob, uploaded>>
    /\ EffectsDue(TRUE, FALSE)
    /\ RecorderFrame

\* RecordingPage.handleUpload up to its first await; the upload section is
\* shown while recordedBlob && !uploadSuccess, the button while !isUploading
handleUpload_begin ==
    /\ EffectsFlushed
    /\ recordedBlob # 0 /\ ~uploadSuccess /\ ~isUploading
    /\ isUploading' = TRUE
    /\ page_error' = FALSE
    /\ hu_blob' = recordedBlob
    /\ last_op' = Op("handleUpload", recordedBlob, TRUE)
    /\ UNCHANGED <<recordedBlob, uploadSuccess, uploaded>>
    /\ UNCHANGED <<state, mediaRecorderRef, streamRef, startTimeRef, now,
                   mr_state, onstop_due, live_streams, active_time, stream,
                   mounted, start_pc>>
    /\ TimerEffect(FALSE) /\ EffectsDue(FALSE, FALSE)
    /\ RecorderFrame

\* handleUpload: the three requests succeeded: setUploadSuccess(true),
\* setRecordedBlob(null), and setIsUploading(false) in the finally block
handleUpload_succeeded ==
    /\ mounted
    /\ isUploading
    /\ uploadSuccess' = TRUE
    /\ recordedBlob' = 0
    /\ isUploading' = FALSE
    /\ uploaded' = hu_blob
    /\ hu_blob' = 0
    /\ last_op' = Op("uploaded", hu_blob, TRUE)
    /\ UNCHANGED page_error
    /\ UNCHANGED <<state, mediaRecorderRef, streamRef, startTimeRef, now,
                   mr_state, onstop_due, live_streams, active_time, stream,
                   mounted, start_pc>>
    /\ TimerEffect(FALSE) /\ EffectsDue(FALSE, FALSE)
    /\ RecorderFrame

\* handleUpload: one of the requests failed: setError, setIsUploading(false)
handleUpload_failed ==
    /\ mounted
    /\ isUploading
    /\ page_error' = TRUE
    /\ isUploading' = FALSE
    /\ hu_blob' = 0
    /\ last_op' = Op("uploaded", hu_blob, FALSE)
    /\ UNCHANGED <<recordedBlob, uploadSuccess, uploaded>>
    /\ UNCHANGED <<state, mediaRecorderRef, streamRef, startTimeRef, now,
                   mr_state, onstop_due, live_streams, active_time, stream,
                   mounted, start_pc>>
    /\ TimerEffect(FALSE) /\ EffectsDue(FALSE, FALSE)
    /\ RecorderFrame

\* RecordingPage.resetRecording, from the button of the upload section
resetRecording ==
    /\ EffectsFlushed
    /\ recordedBlob # 0 /\ ~uploadSuccess /\ ~isUploading
    /\ recordedBlob' = 0
    /\ uploadSuccess' = FALSE
    /\ page_error' = FALSE
    /\ last_op' = Op("resetRecording", 0, TRUE)
    /\ UNCHANGED <<isUploading, hu_blob, uploaded>>
    /\ UNCHANGED <<state, mediaRecorderRef, streamRef, startTimeRef, now,
                   mr_state, onstop_due, live_streams, active_time, stream,
                   mounted, start_pc>>
    /\ TimerEffect(FALSE) /\ EffectsDue(FALSE, FALSE)
    /\ RecorderFrame

\* the page is left: the effect cleanups of useMediaRecorder run (the timer's
\* and cleanup()); AudioRecorder has no cleanup for its own stream
unmount ==
    /\ mounted
    /\ mounted' = FALSE
    /\ mr_state' = [c \in CallIds |->
                       IF c \in Stopping({}, {streamRef})
                       THEN "inactive" ELSE mr_state[c]]
    /\ onstop_due' = onstop_due \cup Stopping({}, {streamRef})
    /\ live_streams' = live_streams \ {streamRef}
    /\ streamRef' = 0
    /\ last_op' = Op("unmount", 0, TRUE)
    /\ UNCHANGED <<state, mediaRecorderRef, startTimeRef, now, active_time,
                   stream, start_pc>>
    /\ UNCHANGED varsG
    /\ TimerEffect(TRUE) /\ EffectsDue(FALSE, FALSE)
    /\ RecorderFrame

NextRecorder ==
    \/ \E c \in CallIds : handleStartRecording(c)
    \/ \E c \in CallIds : startRecording_granted(c)
    \/ \E c \in CallIds : startRecording_unsupported(c)
    \/ \E c \in CallIds : startRecording_denied(c)
    \/ \E c \in CallIds : visualizer_granted(c)
    \/ \E c \in CallIds : visualizer_denied(c)
    \/ handleStopRecording
    \/ pauseRecording
    \/ resumeRecording
    \/ \E c \in CallIds : mediaRecorder_onstop(c)
    \/ \E c \in CallIds : mediaRecorder_onerror(c)
    \/ tick
    \/ updateDuration
    \/ maxDuration_effect
    \/ recordingComplete_effect
    \/ handleUpload_begin
    \/ handleUpload_succeeded
    \/ handleUpload_failed
    \/ resetRecording
    \/ unmount

SpecRecorder == InitRecording /\ [][NextRecorder]_vars

\* recording against the clock: start, pause, resume, stop, the timer and the
\* maximum duration
NextTimed ==
    \/ \E c \in CallIds : handleStartRecording(c)
    \/ \E c \in CallIds : startRecording_granted(c)
    \/ \E c \in CallIds : startRecording_denied(c)
    \/ handleStopRecording
    \/ pauseRecording
    \/ resumeRecording
    \/ \E c \in CallIds : mediaRecorder_onstop(c)
    \/ tick
    \/ updateDuration
    \/ maxDuration_effect
    \/ recordingComplete_effect

SpecTimed == InitRecording /\ [][NextTimed]_vars

\* the streams and the recorders, with the clock standing still
NextStreams ==
    \/ \E c \in CallIds : handleStartRecording(c)
    \/ \E c \in CallIds : startRecording_granted(c)
    \/ \E c \in CallIds : startRecording_unsupported(c)
    \/ \E c \in CallIds : startRecording_denied(c)
    \/ \E c \in CallIds : visualizer_granted(c)
    \/ \E c \in CallIds : visualizer_denied(c)
    \/ handleStopRecording
    \/ pauseRecording
    \/ resumeRecording
    \/ \E c \in CallIds : mediaRecorder_onstop(c)
    \/ \E c \in CallIds : mediaRecorder_onerror(c)
    \/ maxDuration_effect
    \/ recordingComplete_effect
    \/ unmount

SpecStreams == InitRecording /\ [][NextStreams]_vars

\* the recording page: a recording is made, delivered and uploaded
NextUpload ==
    \/ \E c \in CallIds : handleStartRecording(c)
    \/ \E c \in CallIds : startRecording_granted(c)
    \/ \E c \in CallIds : visualizer_granted(c)
    \/ handleStopRecording
    \/ \E c \in CallIds : mediaRecorder_onstop(c)
    \/ maxDuration_effect
    \/ recordingComplete_effect
    \/ handleUpload_begin
    \/ handleUpload_succeeded
    \/ handleUpload_failed
    \/ resetRecording

SpecUpload == InitRecording /\ [][NextUpload]_vars

\* C22: a recording whose duration has reached the maximum is stopped: when the
\* maximum duration effect runs with isRecording and duration >= maxDuration,
\* the recorder is stopped and the timer cleared; in every state with
\* isRecording and duration >= maxDuration that effect is still to run or a
\* stop event is on its way; and from there the duration does not grow.
C22_StopsAtMaxDuration ==
    /\ []((mounted /\ state.isRecording /\ state.duration >= MaxDuration)
            => max_effect_due \/ onstop_due # {})
    /\ [][(/\ last_op'.op \in {"maxDuration_effect", "maxDuration_stop"}
           /\ state.isRecording /\ state.duration >= MaxDuration)
          => /\ mediaRecorderRef # 0
             /\ mr_state'[mediaRecorderRef] = "inactive"
             /\ onstop_due' # {}
             /\ ~timerRef']_vars
    /\ [][(/\ mounted /\ state.isRecording /\ state.duration >= MaxDuration
           /\ ~max_effect_due)
          => state'.duration <= state.duration]_vars

\* the duration reached the maximum while recording, the effect stopped the
\* recorder and its stop event ended the recording
C22_Witness ==
    /\ last_op.op = "onstop"
    /\ state.duration >= MaxDuration
    /\ ~state.isRecording /\ state.blob # 0
    /\ mr_state[state.blob] = "inactive"
    /\ live_streams = {} /\ ~timerRef

\* C23: once an upload has succeeded the page stays in the success state
\* (uploadSuccess, no recordedBlob) until resetRecording or the delivery of a
\* new recording, and the blob that was uploaded is not delivered to
\* onRecordingComplete again.
C23_SuccessStateStays ==
    /\ [][(/\ uploadSuccess /\ recordedBlob = 0
           /\ ~(uploadSuccess' /\ recordedBlob' = 0))
          => \/ last_op'.op = "resetRecording"
             \/ last_op'.op = "onRecordingComplete" /\ last_op'.id # uploaded]_vars
    /\ [][(last_op'.op = "onRecordingComplete" /\ uploaded # 0)
          => last_op'.id # uploaded]_vars

\* C24: in every state of the hook, isPaused only if isRecording.
C24_PausedOnlyWhileRecording ==
    state.isPaused => state.isRecording

\* C25: the duration counts only the time spent recording and not paused: each
\* update sets it to that time, and it does not change while paused.
C25_DurationExcludesPauses ==
    /\ [][last_op'.op = "updateDuration" => state'.duration = active_time']_vars
    /\ [][(state.isRecording /\ state.isPaused /\ state'.isPaused)
          => state'.duration = state.duration]_vars

\* the streams of the hook that are live
LiveHookStreams == {c \in CallIds : HookStream(c) \in live_streams}

\* C26: whenever the mounted recorder is not recording no stream acquired for
\* it is live, and no stream of the hook other than the one in streamRef is
\* ever live.
C26_NoStreamWhenIdle ==
    /\ (mounted /\ ~state.isRecording) => live_streams = {}
    /\ \A c \in LiveHookStreams : streamRef = HookStream(c)

\* C27: the step in which the component unmounts leaves no acquired stream
\* live and no timer, whatever the recorder was doing.
C27_UnmountReleasesAll ==
    [][last_op'.op = "unmount" => live_streams' = {} /\ ~timerRef']_vars

\* ------------------------------------------------- polling and the retry
\* a transcription fails and is retried while the page polls
NextRetryPolling ==
    \/ startTranscription(FirstOf(TaskIds))
    \/ transcribe_audio_task_begin(FirstOf(TaskIds))
    \/ transcribe_audio_task_failure(FirstOf(TaskIds))
    \/ retryTranscription(FirstOf(TaskIds))
    \/ fetchData_send
    \/ \E i \in 1..Len(tp_inflight) : fetchData_receive(i)

SpecRetryPolling == Init /\ [][NextRetryPolling]_vars

\* C30: the answer of a fetch is never applied after the answer of a fetch that
\* was issued later, so the list shown is never replaced by older data.
C30_NoStaleOverwrite ==
    [][\A i \in 1..Len(tp_inflight) :
          (tp_inflight[i].overtaken /\ tp_inflight[i].data # tp_tasks)
          => ~fetchData_receive(i)]_vars

====
